---- MODULE Spec2Model ----
(***************************************************************************)
(* Idempotency middleware (package idempotency, idempotencyAPI.ServeHTTP). *)
(* One process per inbound request; the processes share ikCache, a         *)
(* go-cache instance created by cache.New(expiration, cleanupInterval).    *)
(* The cache operations used by the middleware (Add, Get, Replace and the  *)
(* janitor's DeleteExpired) each run under the cache's mutex, so each is   *)
(* one atomic step here.  Time is a discrete clock; an item written at     *)
(* time t carries the deadline t + TTL and is expired when now > deadline. *)
(***************************************************************************)
EXTENDS Integers, Sequences, FiniteSets, TLC

\* ---- bounds of the model ----
NReq == 3        \* number of inbound requests
MaxTime == 3     \* the clock stops ticking here
TTL == 1         \* the configured expiration, in clock ticks

Reqs == 1 .. NReq
\* Values of the Idempotency-Key header ("" is the absent header).
IKs == {"", "ab", "abcd"}
\* Configured minimum key lengths.
MinIKLens == {0, 4}
StatusOK == 200
StatusBadRequest == 400
StatusInternalServerError == 500

VARIABLES
    now,        \* the clock
    minIKLen,   \* idempotencyAPI.minIKLen
    ikCache,    \* idempotencyAPI.ikCache: map from key to item
    pc,         \* position of each request in ServeHTTP
    ik,         \* the request's Idempotency-Key header
    role,       \* how the request left admission: rejected, executor, follower
    slept,      \* the follower has been through the sleep of its wait loop
    over,       \* what the executor's admission found under its key
    w,          \* the request's http.ResponseWriter
    rc,         \* the executor's respCatcher (statusCode, body) and the
                \* calls its handler made on it
    invoked,    \* per key: how often the handler was invoked (counts up to NReq)
    lapsed      \* per key: an item of this key has passed its deadline

vars == <<now, minIKLen, ikCache, pc, ik, role, slept, over, w, rc, invoked, lapsed>>

\* ---- http.Header ----
EmptyHeader == [h \in {} |-> <<>>]

HeaderSet(h, k, v) == [x \in (DOMAIN h) \cup {k} |-> IF x = k THEN <<v>> ELSE h[x]]

\* for k, v := range src { dst[k] = v }
HeaderCopy(dst, src) ==
    [x \in (DOMAIN dst) \cup (DOMAIN src) |-> IF x \in DOMAIN src THEN src[x] ELSE dst[x]]

\* ---- the server's http.ResponseWriter ----
\* status = 0: the header is not written yet; sent: the headers that went
\* out with the status line; hdr: the live map returned by Header().
NewWriter == [status |-> 0, sent |-> EmptyHeader, hdr |-> EmptyHeader,
              body |-> "", writes |-> 0]

\* Only the first WriteHeader takes effect.
WriterWriteHeader(x, code) ==
    IF x.status # 0 THEN x ELSE [x EXCEPT !.status = code, !.sent = x.hdr]

\* A Write before any WriteHeader sends 200 first.
WriterWrite(x, p) ==
    LET y == WriterWriteHeader(x, StatusOK)
    IN  [y EXCEPT !.body = @ \o p, !.writes = @ + 1]

\* When ServeHTTP returns without a header written the server sends 200.
WriterFinish(x) == WriterWriteHeader(x, StatusOK)

\* http.Error(w, msg, status): a text/plain response whose body is the line msg.
Fprintln(msg) == msg \o "\n"

HttpError(x, msg, status) ==
    LET h1 == HeaderSet(x.hdr, "Content-Type", "text/plain; charset=utf-8")
        h2 == HeaderSet(h1, "X-Content-Type-Options", "nosniff")
        y  == WriterWriteHeader([x EXCEPT !.hdr = h2], status)
    IN  WriterWrite(y, Fprintln(msg))

responseError(x, msg, status) == HttpError(x, msg, status)

\* ---- ikCache: github.com/patrickmn/go-cache as the middleware uses it ----
\* &response{}: the not-ready placeholder stored on admission.
response0 == [Ready |-> FALSE, Header |-> EmptyHeader, Status |-> 0, Body |-> ""]

\* Lookup that never checks the deadline (expiry left to the janitor).
FoundNoExpiry(k) == k \in DOMAIN ikCache

\* Lookup under which a pending item does not expire.
FoundPendingKept(k) ==
    k \in DOMAIN ikCache /\ (now <= ikCache[k].Expiration \/ ~ikCache[k].Object.Ready)

\* An item is found while it is present and its deadline has not passed.
Found(k) == k \in DOMAIN ikCache /\ now <= ikCache[k].Expiration

\* A store that keeps nothing but the item it writes.
CacheSetOnly(k, obj) ==
    [x \in {k} |-> [Object |-> obj, Expiration |-> now + TTL]]

\* Store obj under k with a deadline of now + TTL (cache.DefaultExpiration).
CacheSet(k, obj) ==
    [x \in (DOMAIN ikCache) \cup {k} |->
        IF x = k THEN [Object |-> obj, Expiration |-> now + TTL] ELSE ikCache[x]]

\* Add that takes a pending item for no item.
AddOverPending(k, obj) ==
    IF Found(k) /\ ikCache[k].Object.Ready THEN [err |-> TRUE, items |-> ikCache]
    ELSE [err |-> FALSE, items |-> CacheSet(k, obj)]

\* Add as an unconditional Set: the existing item is not looked at.
AddAsSet(k, obj) == [err |-> FALSE, items |-> CacheSet(k, obj)]

\* Add that refreshes the deadline of the item it finds.
AddRefreshes(k, obj) ==
    IF Found(k) THEN [err |-> TRUE, items |-> CacheSet(k, ikCache[k].Object)]
    ELSE [err |-> FALSE, items |-> CacheSet(k, obj)]

\* ikCache.Add: under the cache's lock, stores only if no unexpired item
\* exists and returns an error otherwise.
Add(k, obj) ==
    IF Found(k) THEN [err |-> TRUE, items |-> ikCache]
    ELSE [err |-> FALSE, items |-> CacheSet(k, obj)]

\* Replace that keeps the deadline of the item it overwrites.
ReplaceKeepsDeadline(k, obj) ==
    IF Found(k) THEN [ikCache EXCEPT ![k] = [Object |-> obj, Expiration |-> @.Expiration]]
    ELSE ikCache

\* ikCache.Replace: stores only if an unexpired item exists.
Replace(k, obj) == IF Found(k) THEN CacheSet(k, obj) ELSE ikCache

\* getResponse: the cached *response, or an error when Get finds nothing.
getResponse(k) ==
    IF Found(k) THEN [ok |-> TRUE, resp |-> ikCache[k].Object]
    ELSE [ok |-> FALSE, resp |-> response0]

\* ---- ServeHTTP ----
MissingMsg == "missing header: Idempotency-Key"
MinLenMsg(n) == "Minimum idempotency key length: " \o ToString(n)

\* The length check placed before the check for the missing header.
ValidateLengthFirst(key, min) ==
    IF Len(key) < min THEN MinLenMsg(min)
    ELSE IF key = "" THEN MissingMsg
    ELSE ""

\* The length check with <= in place of <.
ValidateInclusive(key, min) ==
    IF key = "" THEN MissingMsg
    ELSE IF Len(key) <= min THEN MinLenMsg(min)
    ELSE ""

\* The checks on the header before admission: the 400 message, or "" to go on.
Validate(key, min) ==
    IF key = "" THEN MissingMsg
    ELSE IF Len(key) < min THEN MinLenMsg(min)
    ELSE ""

\* Replay that writes the body before the status line.
ReplayBodyFirst(x, resp) ==
    LET y == [x EXCEPT !.hdr = HeaderCopy(x.hdr, resp.Header)]
        z == IF resp.Body # "" THEN WriterWrite(y, resp.Body) ELSE y
    IN  WriterWriteHeader(z, resp.Status)

\* Replay of a ready response to a follower's writer.
Replay(x, resp) ==
    LET y == WriterWriteHeader([x EXCEPT !.hdr = HeaderCopy(x.hdr, resp.Header)],
                               resp.Status)
    IN  IF resp.Body # "" THEN WriterWrite(y, resp.Body) ELSE y

TypeOK ==
    /\ now \in 0 .. MaxTime
    /\ minIKLen \in MinIKLens
    /\ DOMAIN ikCache \subseteq IKs \ {""}
    /\ pc \in [Reqs -> {"idle", "get", "set", "sleep", "handler", "done", "panicked"}]
    /\ ik \in [Reqs -> IKs]
    /\ role \in [Reqs -> {"none", "rejected", "executor", "follower"}]
    /\ slept \in [Reqs -> BOOLEAN]
    /\ over \in [Reqs -> {"none", "absent", "pending", "ready"}]
    /\ invoked \in [IKs -> 0 .. NReq]
    /\ lapsed \in [IKs -> BOOLEAN]

Init ==
    /\ now = 0
    /\ minIKLen \in MinIKLens
    /\ ikCache = [k \in {} |-> response0]
    /\ pc = [r \in Reqs |-> "idle"]
    /\ ik = [r \in Reqs |-> ""]
    /\ role = [r \in Reqs |-> "none"]
    /\ slept = [r \in Reqs |-> FALSE]
    /\ over = [r \in Reqs |-> "none"]
    /\ w = [r \in Reqs |-> NewWriter]
    /\ rc = [r \in Reqs |-> [statusCode |-> StatusOK, body |-> "", calls |-> <<>>]]
    /\ invoked = [k \in IKs |-> 0]
    /\ lapsed = [k \in IKs |-> FALSE]

\* What admission found under the key: nothing, or an expired item that
\* was still pending or already ready.
Stale(k) ==
    IF k \notin DOMAIN ikCache THEN "absent"
    ELSE IF ikCache[k].Object.Ready THEN "ready" ELSE "pending"

\* Lines 48-59 and 86-87: read the header, validate it, try to add the
\* placeholder; the winner calls the handler, a loser goes on to read.
Begin(r, k) ==
    /\ pc[r] = "idle"
    /\ ik' = [ik EXCEPT ![r] = k]
    /\ UNCHANGED <<now, minIKLen, slept, rc, lapsed>>
    /\ IF Validate(k, minIKLen) # ""
       THEN /\ w' = [w EXCEPT ![r] = responseError(@, Validate(k, minIKLen), StatusBadRequest)]
            /\ pc' = [pc EXCEPT ![r] = "done"]
            /\ role' = [role EXCEPT ![r] = "rejected"]
            /\ UNCHANGED <<ikCache, over, invoked>>
       ELSE LET a == Add(k, response0)
            IN  /\ ikCache' = a.items
                /\ IF a.err
                   THEN /\ pc' = [pc EXCEPT ![r] = "get"]
                        /\ role' = [role EXCEPT ![r] = "follower"]
                        /\ UNCHANGED <<w, over, invoked>>
                   ELSE /\ pc' = [pc EXCEPT ![r] = "handler"]
                        /\ role' = [role EXCEPT ![r] = "executor"]
                        /\ over' = [over EXCEPT ![r] = Stale(k)]
                        /\ invoked' = [invoked EXCEPT ![k] = IF @ < NReq THEN @ + 1 ELSE @]
                        /\ UNCHANGED w

\* A follower that finds its key gone and runs the handler itself.
OnLostReexecute(r) ==
    /\ pc' = [pc EXCEPT ![r] = "handler"]
    /\ invoked' = [invoked EXCEPT ![ik[r]] = @ + 1]
    /\ UNCHANGED <<ikCache, role, slept, over, w, rc>>

\* A follower that finds its key gone and keeps polling.
OnLostRetry(r) ==
    /\ pc' = [pc EXCEPT ![r] = "sleep"]
    /\ UNCHANGED <<ikCache, role, slept, over, w, rc, invoked>>

\* A follower that finds its key gone and stores its 500 under the key.
OnLostCaches(r) ==
    /\ w' = [w EXCEPT ![r] = responseError(@, "", StatusInternalServerError)]
    /\ ikCache' = CacheSet(ik[r], [Ready |-> TRUE, Header |-> w'[r].hdr,
                                   Status |-> StatusInternalServerError,
                                   Body |-> Fprintln("")])
    /\ pc' = [pc EXCEPT ![r] = "done"]
    /\ UNCHANGED <<role, slept, over, rc, invoked>>

\* Lines 62-65 and 70-73: the key is gone; answer 500 and return.
OnLost(r) ==
    /\ w' = [w EXCEPT ![r] = responseError(@, "", StatusInternalServerError)]
    /\ pc' = [pc EXCEPT ![r] = "done"]
    /\ UNCHANGED <<ikCache, role, slept, over, rc, invoked>>

\* A read that renews the deadline of the item it finds (sliding expiry).
FollowerReadTouches(r) ==
    LET g == getResponse(ik[r])
    IN  IF ~g.ok THEN OnLost(r)
        ELSE /\ ikCache' = CacheSet(ik[r], g.resp)
             /\ IF g.resp.Ready
                THEN /\ w' = [w EXCEPT ![r] = Replay(@, g.resp)]
                     /\ pc' = [pc EXCEPT ![r] = "done"]
                     /\ UNCHANGED <<role, slept, over, rc, invoked>>
                ELSE /\ pc' = [pc EXCEPT ![r] = "sleep"]
                     /\ slept' = [slept EXCEPT ![r] = TRUE]
                     /\ UNCHANGED <<role, over, w, rc, invoked>>

\* A read that replays whatever item it finds, ready or not.
FollowerReadAny(r) ==
    LET g == getResponse(ik[r])
    IN  IF ~g.ok THEN OnLost(r)
        ELSE /\ w' = [w EXCEPT ![r] = Replay(@, g.resp)]
             /\ pc' = [pc EXCEPT ![r] = "done"]
             /\ UNCHANGED <<ikCache, role, slept, over, rc, invoked>>

\* One read of the follower: lost, ready (replay, lines 76-83) or not ready.
FollowerRead(r) ==
    LET g == getResponse(ik[r])
    IN  IF ~g.ok THEN OnLost(r)
        ELSE IF g.resp.Ready
        THEN /\ w' = [w EXCEPT ![r] = Replay(@, g.resp)]
             /\ pc' = [pc EXCEPT ![r] = "done"]
             /\ UNCHANGED <<ikCache, role, slept, over, rc, invoked>>
        ELSE /\ pc' = [pc EXCEPT ![r] = "sleep"]
             /\ slept' = [slept EXCEPT ![r] = TRUE]
             /\ UNCHANGED <<ikCache, role, over, w, rc, invoked>>

\* Line 61: the first read after losing admission.
FirstGet(r) ==
    /\ pc[r] = "get"
    /\ FollowerRead(r)
    /\ UNCHANGED <<now, minIKLen, ik, lapsed>>

\* Lines 66-74: sleep 45ms, read again.
Poll(r) ==
    /\ pc[r] = "sleep"
    /\ FollowerRead(r)
    /\ UNCHANGED <<now, minIKLen, ik, lapsed>>

\* ---- respCatcher and the wrapped handler ----
\* respCatcher{w, &bytes.Buffer{}, http.StatusOK}
NewCatcher(x) == [ResponseWriter |-> x, body |-> "", statusCode |-> StatusOK]

\* respCatcher.WriteHeader
CatcherWriteHeader(c, code) ==
    [c EXCEPT !.statusCode = code,
              !.ResponseWriter = WriterWriteHeader(@, code)]

\* A Write that buffers the bytes and forwards nothing.
CatcherWriteBuffered(c, p) == [c EXCEPT !.body = @ \o p]

\* respCatcher.Write
CatcherWrite(c, p) ==
    [c EXCEPT !.body = @ \o p,
              !.ResponseWriter = WriterWrite(@, p)]

\* The calls a handler can make on the writer it is given: set a header on
\* Header(), WriteHeader(code), Write(p).
SetHeader == [op |-> "Header", code |-> 0, p |-> ""]
WriteHeader(code) == [op |-> "WriteHeader", code |-> code, p |-> ""]
Write(p) == [op |-> "Write", code |-> 0, p |-> p]

\* A run of the handler is the sequence of calls it makes.  The runs the
\* handler may take: no output at all; createSongHandler's writeJson (header,
\* status, body); a bare error status; two writes without a status; a second
\* WriteHeader; a WriteHeader after a Write; a header set after WriteHeader;
\* an error status followed by a success status (an error branch that does
\* not return before the success branch writes).
Scripts ==
    { <<>>,
      <<SetHeader, WriteHeader(201), Write("a")>>,
      <<WriteHeader(500)>>,
      <<Write("a"), Write("b")>>,
      <<WriteHeader(201), WriteHeader(500)>>,
      <<Write("a"), WriteHeader(500)>>,
      <<WriteHeader(201), SetHeader>>,
      <<WriteHeader(500), WriteHeader(201)>> }

Call(c, x) ==
    CASE x.op = "Header" ->
            [c EXCEPT !.ResponseWriter.hdr = HeaderSet(@, "Content-Type", "application/json")]
      [] x.op = "WriteHeader" -> CatcherWriteHeader(c, x.code)
      [] x.op = "Write" -> CatcherWrite(c, x.p)

RECURSIVE Run(_, _)
Run(c, s) == IF s = <<>> THEN c ELSE Run(Call(c, Head(s)), Tail(s))

\* The response the executor publishes when its handler has returned (line 90).
Captured(c) ==
    [Ready |-> TRUE, Header |-> c.ResponseWriter.hdr, Status |-> c.statusCode,
     Body |-> c.body]

\* Lines 86-92: the handler, started at admission, has made the calls of s
\* on the respCatcher and returns; the executor publishes with Replace.
HandlerReturn(r, s) ==
    /\ pc[r] = "handler"
    /\ LET c == Run(NewCatcher(w[r]), s)
       IN  /\ ikCache' = Replace(ik[r], Captured(c))
           /\ rc' = [rc EXCEPT ![r] = [statusCode |-> c.statusCode, body |-> c.body,
                                       calls |-> s]]
           /\ w' = [w EXCEPT ![r] = WriterFinish(c.ResponseWriter)]
    /\ pc' = [pc EXCEPT ![r] = "done"]
    /\ UNCHANGED <<now, minIKLen, ik, role, slept, over, invoked, lapsed>>

\* The handler panics: ServeHTTP unwinds at line 87, Replace is not reached
\* and the server aborts the connection.
HandlerPanic(r) ==
    /\ pc[r] = "handler"
    /\ pc' = [pc EXCEPT ![r] = "panicked"]
    /\ UNCHANGED <<now, minIKLen, ikCache, ik, role, slept, over, w, rc, invoked, lapsed>>

\* ---- time and the cache's janitor ----
Tick ==
    /\ now < MaxTime
    /\ now' = now + 1
    /\ lapsed' = [k \in IKs |->
                    lapsed[k] \/ (k \in DOMAIN ikCache /\ now + 1 > ikCache[k].Expiration)]
    /\ UNCHANGED <<minIKLen, ikCache, pc, ik, role, slept, over, w, rc, invoked>>

\* janitor: DeleteExpired every cleanupInterval.
DeleteExpired ==
    /\ \E k \in DOMAIN ikCache : now > ikCache[k].Expiration
    /\ ikCache' = [k \in {x \in DOMAIN ikCache : now <= ikCache[x].Expiration} |-> ikCache[k]]
    /\ UNCHANGED <<now, minIKLen, pc, ik, role, slept, over, w, rc, invoked, lapsed>>

Next ==
    \/ \E r \in Reqs, k \in IKs : Begin(r, k)
    \/ \E r \in Reqs : FirstGet(r)
    \/ \E r \in Reqs : Poll(r)
    \/ \E r \in Reqs, s \in Scripts : HandlerReturn(r, s)
    \/ \E r \in Reqs : HandlerPanic(r)
    \/ Tick
    \/ DeleteExpired

Spec == Init /\ [][Next]_vars


\* ---- an unbounded stream of requests ----
\* The goroutine of a request that has returned (or was unwound by a
\* panic) is gone; its slot stands for the next inbound request.
Retire(r) ==
    /\ pc[r] \in {"done", "panicked"}
    /\ pc' = [pc EXCEPT ![r] = "idle"]
    /\ ik' = [ik EXCEPT ![r] = ""]
    /\ role' = [role EXCEPT ![r] = "none"]
    /\ slept' = [slept EXCEPT ![r] = FALSE]
    /\ over' = [over EXCEPT ![r] = "none"]
    /\ w' = [w EXCEPT ![r] = NewWriter]
    /\ rc' = [rc EXCEPT ![r] = [statusCode |-> StatusOK, body |-> "", calls |-> <<>>]]
    /\ UNCHANGED <<now, minIKLen, ikCache, invoked, lapsed>>

\* Time passes without bound: only the distance of a deadline from the
\* clock matters, so the clock stays and every deadline moves one tick
\* closer (a deadline already passed stays passed).
LiveTick ==
    /\ ikCache' = [k \in DOMAIN ikCache |->
                     [ikCache[k] EXCEPT !.Expiration = IF @ < now THEN @ ELSE @ - 1]]
    /\ lapsed' = [k \in IKs |->
                    lapsed[k] \/ (k \in DOMAIN ikCache /\ now + 1 > ikCache[k].Expiration)]
    /\ UNCHANGED <<now, minIKLen, pc, ik, role, slept, over, w, rc, invoked>>

\* The key and the handler run of the stream.
LiveKey == "abcd"
LiveScripts == {<<WriteHeader(201), Write("a")>>}

LiveNext ==
    \/ \E r \in Reqs : Begin(r, LiveKey)
    \/ \E r \in Reqs : FirstGet(r)
    \/ \E r \in Reqs : Poll(r)
    \/ \E r \in Reqs, s \in LiveScripts : HandlerReturn(r, s)
    \/ \E r \in Reqs : HandlerPanic(r)
    \/ \E r \in Reqs : Retire(r)
    \/ LiveTick
    \/ DeleteExpired

\* A follower's goroutine keeps running (its sleep returns and it reads
\* again) and time passes; nothing obliges a request to arrive or a handler
\* to return.
SpecLive ==
    /\ Init
    /\ [][LiveNext]_vars
    /\ \A r \in Reqs : WF_vars(FirstGet(r)) /\ WF_vars(Poll(r))
    /\ WF_vars(LiveTick)

\* ---- the sample server's inline middleware (application.idempotencyAPI) ----
\* It shares the cache type and the Response type with the package; its
\* idempotencyWriter is respCatcher under another name.  Admission is a Get
\* followed, when the Get finds nothing, by a Set: two steps of the request.
InlineKeys == {"", "abcd"}
InlineScripts == {<<SetHeader, WriteHeader(201), Write("a")>>, <<WriteHeader(500)>>}

\* main.go lines 197-224: the header check and the first Get.  A miss sends
\* the request on to the Set; a ready item is replayed; a pending item
\* sends it into the wait loop.
InlineGet(r, k) ==
    /\ pc[r] = "idle"
    /\ ik' = [ik EXCEPT ![r] = k]
    /\ UNCHANGED <<now, minIKLen, ikCache, slept, over, rc, invoked, lapsed>>
    /\ IF k = ""
       THEN /\ w' = [w EXCEPT ![r] = responseError(@, MissingMsg, StatusBadRequest)]
            /\ pc' = [pc EXCEPT ![r] = "done"]
            /\ role' = [role EXCEPT ![r] = "rejected"]
       ELSE IF ~Found(k)
       THEN /\ pc' = [pc EXCEPT ![r] = "set"]
            /\ role' = [role EXCEPT ![r] = "executor"]
            /\ UNCHANGED w
       ELSE IF ikCache[k].Object.Ready
       THEN /\ w' = [w EXCEPT ![r] = Replay(@, ikCache[k].Object)]
            /\ pc' = [pc EXCEPT ![r] = "done"]
            /\ role' = [role EXCEPT ![r] = "follower"]
       ELSE /\ pc' = [pc EXCEPT ![r] = "sleep"]
            /\ role' = [role EXCEPT ![r] = "follower"]
            /\ UNCHANGED w

\* main.go lines 226-230: store the placeholder, whatever the key holds by
\* now, and call the api handler.
InlineSet(r) ==
    /\ pc[r] = "set"
    /\ ikCache' = CacheSet(ik[r], response0)
    /\ invoked' = [invoked EXCEPT ![ik[r]] = IF @ < NReq THEN @ + 1 ELSE @]
    /\ pc' = [pc EXCEPT ![r] = "handler"]
    /\ UNCHANGED <<now, minIKLen, ik, role, slept, over, w, rc, lapsed>>

\* main.go lines 206-222: one turn of the wait loop: Get again; a miss is
\* the 500, a ready item is replayed, a pending item is another turn.
InlinePoll(r) ==
    /\ pc[r] = "sleep"
    /\ UNCHANGED <<now, minIKLen, ikCache, ik, role, over, rc, invoked, lapsed>>
    /\ IF ~Found(ik[r])
       THEN /\ w' = [w EXCEPT ![r] = responseError(@, "", StatusInternalServerError)]
            /\ pc' = [pc EXCEPT ![r] = "done"]
            /\ UNCHANGED slept
       ELSE IF ikCache[ik[r]].Object.Ready
       THEN /\ w' = [w EXCEPT ![r] = Replay(@, ikCache[ik[r]].Object)]
            /\ pc' = [pc EXCEPT ![r] = "done"]
            /\ UNCHANGED slept
       ELSE /\ slept' = [slept EXCEPT ![r] = TRUE]
            /\ UNCHANGED <<pc, w>>

\* main.go lines 229-236: the api handler has made the calls of s on the
\* idempotencyWriter and returns; Replace publishes.
InlineReturn(r, s) ==
    /\ pc[r] = "handler"
    /\ LET c == Run(NewCatcher(w[r]), s)
       IN  /\ ikCache' = Replace(ik[r], Captured(c))
           /\ rc' = [rc EXCEPT ![r] = [statusCode |-> c.statusCode, body |-> c.body,
                                       calls |-> s]]
           /\ w' = [w EXCEPT ![r] = WriterFinish(c.ResponseWriter)]
    /\ pc' = [pc EXCEPT ![r] = "done"]
    /\ UNCHANGED <<now, minIKLen, ik, role, slept, over, invoked, lapsed>>

InlineNext ==
    \/ \E r \in Reqs, k \in InlineKeys : InlineGet(r, k)
    \/ \E r \in Reqs : InlineSet(r)
    \/ \E r \in Reqs : InlinePoll(r)
    \/ \E r \in Reqs, s \in InlineScripts : InlineReturn(r, s)
    \/ Tick
    \/ DeleteExpired

SpecInline == Init /\ [][InlineNext]_vars

\* ---- every short run of the handler ----
MaxCalls == 3    \* longest run of the handler, in calls on the writer

\* The calls of a run.
CallSet == {SetHeader, WriteHeader(201), WriteHeader(500), Write("a"), Write("b")}

\* All runs of at most MaxCalls calls.
CaptureScripts == UNION {[1 .. m -> CallSet] : m \in 0 .. MaxCalls}

CaptureKey == "abcd"

\* Requests of one key, no expiry: one executor whose handler takes any of
\* the runs, the other requests replay.
CaptureNext ==
    \/ \E r \in Reqs : Begin(r, CaptureKey)
    \/ \E r \in Reqs : FirstGet(r)
    \/ \E r \in Reqs : Poll(r)
    \/ \E r \in Reqs, s \in CaptureScripts : HandlerReturn(r, s)

SpecCapture == Init /\ [][CaptureNext]_vars

\* ======================= properties =======================
\* Request r has passed validation and gone through admission.
Admitted(r) == role[r] \in {"executor", "follower"}

\* Request r has returned from ServeHTTP with a response to its caller.
Answered(r) == pc[r] = "done" /\ Admitted(r)

\* This step is r's admission: r leaves line 58 as executor or follower.
AdmissionStep(r) == pc[r] = "idle" /\ pc'[r] \in {"get", "handler"}

\* This step is a read of follower r (getResponse at line 61 or 69) that
\* ends its wait.
ReadStep(r) == pc[r] \in {"get", "sleep"} /\ pc'[r] # pc[r]

\* The requests that carry key k and went through admission.
Carrying(k) == {r \in Reqs : Admitted(r) /\ ik[r] = k}

Executors(k) == {r \in Reqs : role[r] = "executor" /\ ik[r] = k}

\* C1 as stated: for every key K the handler is invoked exactly once in
\* total across the requests carrying K, in every interleaving of the
\* requests and the store's expiry.
C1_OncePerKey ==
    \A k \in IKs : Carrying(k) # {} => invoked[k] = 1

\* C1 amended: for every key K and the requests carrying K, the handler is
\* invoked exactly once in total as long as no item of K has passed its
\* deadline; the count of invocations is the count of executors.
C1_OncePerKeyUntilExpiry ==
    \A k \in IKs :
        /\ invoked[k] = Cardinality(Executors(k))
        /\ (Carrying(k) # {} /\ ~lapsed[k]) => invoked[k] = 1

\* NReq requests with one key all answered, one invocation.
C1_Witness ==
    \E k \in IKs :
        /\ ~lapsed[k]
        /\ invoked[k] = 1
        /\ Cardinality({r \in Carrying(k) : pc[r] = "done"}) >= 2

\* C2: all callers of a group of requests sharing a key that get a response
\* get the same status code, the same headers and the same body.
C2_SameResponse ==
    \A r1, r2 \in Reqs :
        (Answered(r1) /\ Answered(r2) /\ ik[r1] = ik[r2]) =>
            /\ w[r1].status = w[r2].status
            /\ w[r1].sent = w[r2].sent
            /\ w[r1].body = w[r2].body

\* C3: admission is one atomic test-and-insert per key.  A request that
\* attempts it while an unexpired item exists becomes a follower and the
\* cache (item and deadline) is untouched; one that attempts it while none
\* exists becomes the executor and the not-ready placeholder is stored
\* with a fresh deadline, so a second attempt on that item loses.
C3_AdmissionAtomic ==
    [][\A r \in Reqs : AdmissionStep(r) =>
        LET k == ik'[r]
        IN  IF k \in DOMAIN ikCache /\ now <= ikCache[k].Expiration
            THEN /\ role'[r] = "follower"
                 /\ ikCache' = ikCache
            ELSE /\ role'[r] = "executor"
                 /\ k \in DOMAIN ikCache'
                 /\ ikCache'[k] = [Object |-> response0, Expiration |-> now + TTL]
                 /\ \A x \in DOMAIN ikCache' \ {k} :
                        x \in DOMAIN ikCache /\ ikCache'[x] = ikCache[x]]_vars

\* One executor and two followers of one key whose item never expired.
C3_Witness ==
    \E k \in IKs :
        /\ ~lapsed[k]
        /\ Cardinality(Executors(k)) = 1
        /\ Cardinality({r \in Reqs : role[r] = "follower" /\ ik[r] = k}) >= 2

\* C4: a request without the Idempotency-Key header gets 400 with the
\* body line "missing header: Idempotency-Key" whatever the configured
\* minimum is, and the handler is not invoked for it.
C4_MissingHeader ==
    \A r \in Reqs : (pc[r] # "idle" /\ ik[r] = "") =>
        /\ pc[r] = "done"
        /\ role[r] = "rejected"
        /\ w[r].status = 400
        /\ w[r].body = "missing header: Idempotency-Key\n"
        /\ invoked[""] = 0

\* A request without the header answered under a non-zero minimum.
C4_Witness ==
    \E r \in Reqs : pc[r] = "done" /\ ik[r] = "" /\ minIKLen > 0 /\ w[r].status = 400

\* C5: a non-empty key strictly shorter than the minimum gets 400 with the
\* message stating the minimum and never reaches the handler; a key of
\* length equal to or above the minimum goes on to admission.
C5_MinimumLength ==
    \A r \in Reqs : (pc[r] # "idle" /\ ik[r] # "") =>
        IF Len(ik[r]) < minIKLen
        THEN /\ pc[r] = "done"
             /\ role[r] = "rejected"
             /\ w[r].status = 400
             /\ w[r].body = "Minimum idempotency key length: " \o ToString(minIKLen) \o "\n"
             /\ invoked[ik[r]] = 0
        ELSE Admitted(r)

\* A short key rejected and a key of exactly the minimum length admitted.
C5_Witness ==
    \E r1, r2 \in Reqs :
        /\ ik[r1] # "" /\ Len(ik[r1]) < minIKLen /\ role[r1] = "rejected"
        /\ Len(ik[r2]) = minIKLen /\ Admitted(r2)

\* The item of key k is present and its deadline has not passed.
Unexpired(k) == k \in DOMAIN ikCache /\ now <= ikCache[k].Expiration

\* The item of key k is present, past its deadline and not yet swept.
ExpiredItem(k) == k \in DOMAIN ikCache /\ now > ikCache[k].Expiration

\* The writer holds the 500 of a lost entry (written by http.Error).
LostAnswer(x) == x.status = 500 /\ "X-Content-Type-Options" \in DOMAIN x.sent

\* C6: a follower whose read finds a ready item answers with exactly the
\* stored response: its status code, its headers with their values and its
\* body bytes, with no body write when the stored body is absent.
C6_ReplayExact ==
    [][\A r \in Reqs :
        (ReadStep(r) /\ Unexpired(ik[r]) /\ ikCache[ik[r]].Object.Ready) =>
            LET e == ikCache[ik[r]].Object
            IN  /\ pc'[r] = "done"
                /\ w'[r].status = e.Status
                /\ w'[r].sent = e.Header
                /\ w'[r].hdr = e.Header
                /\ w'[r].body = e.Body
                /\ w'[r].writes = IF e.Body = "" THEN 0 ELSE 1]_vars

\* A follower has replayed a response with a status, a header and a body.
C6_Witness ==
    \E r \in Reqs :
        /\ role[r] = "follower" /\ pc[r] = "done"
        /\ w[r].status = 201
        /\ w[r].sent = [h \in {"Content-Type"} |-> <<"application/json">>]
        /\ w[r].body = "a"

\* C7: a request that lost admission never invokes the handler: it stays a
\* follower, changes neither the invocation counts nor the cache, and ends
\* by replaying the stored response or with the 500 of a lost entry.  A
\* request admitted against a ready unexpired item causes no invocation.
C7_LoserNeverInvokes ==
    [][\A r \in Reqs :
        /\ (AdmissionStep(r) /\ Unexpired(ik'[r])) =>
                role'[r] = "follower" /\ invoked' = invoked
        /\ role[r] = "follower" =>
            /\ role'[r] = "follower"
            /\ pc'[r] \in {"get", "sleep", "done"}
            /\ pc'[r] # pc[r] => (invoked' = invoked /\ ikCache' = ikCache)
            /\ (pc'[r] = "done" /\ pc[r] # "done") =>
                IF Unexpired(ik[r])
                THEN /\ ikCache[ik[r]].Object.Ready
                     /\ w'[r].status = ikCache[ik[r]].Object.Status
                     /\ w'[r].body = ikCache[ik[r]].Object.Body
                ELSE LostAnswer(w'[r])]_vars

\* The executor has answered, a later request of the same key has replayed
\* its response, and the handler ran once.
C7_Witness ==
    \E r1, r2 \in Reqs :
        /\ ik[r1] = ik[r2] /\ invoked[ik[r1]] = 1
        /\ role[r1] = "executor" /\ pc[r1] = "done"
        /\ role[r2] = "follower" /\ pc[r2] = "done" /\ ~slept[r2]
        /\ ~LostAnswer(w[r2])

\* C8: duplicate suppression is time-bounded.  Publishing gives the item
\* the deadline now + TTL; once that deadline has passed the ready item is
\* unreachable (a read finds nothing) and the next request with the key is
\* admitted as a fresh executor and invokes the handler again.
C8_ReadyItemExpires ==
    [][\A r \in Reqs :
        /\ (pc[r] = "handler" /\ pc'[r] = "done" /\ Unexpired(ik[r])) =>
                /\ ikCache'[ik[r]].Object.Ready
                /\ ikCache'[ik[r]].Expiration = now + TTL
        /\ (AdmissionStep(r) /\ ExpiredItem(ik'[r]) /\ ikCache[ik'[r]].Object.Ready) =>
                /\ role'[r] = "executor"
                /\ invoked'[ik'[r]] = invoked[ik'[r]] + 1
                /\ ~ikCache'[ik'[r]].Object.Ready
        /\ (ReadStep(r) /\ ExpiredItem(ik[r]) /\ ikCache[ik[r]].Object.Ready) =>
                LostAnswer(w'[r])]_vars

\* A request was admitted over an expired ready item: second invocation.
C8_Witness ==
    \E r \in Reqs :
        /\ role[r] = "executor" /\ over[r] = "ready"
        /\ invoked[ik[r]] = 2

\* C9: expiry does not depend on the ready flag.  Once the deadline of a
\* not-ready item has passed, the next request with the key wins
\* admission as a fresh executor (new placeholder, new deadline, new
\* invocation) and a follower's read of the key finds nothing.
C9_PendingItemExpires ==
    [][\A r \in Reqs :
        /\ (AdmissionStep(r) /\ ExpiredItem(ik'[r]) /\ ~ikCache[ik'[r]].Object.Ready) =>
                /\ role'[r] = "executor"
                /\ invoked'[ik'[r]] = invoked[ik'[r]] + 1
                /\ ikCache'[ik'[r]] = [Object |-> response0, Expiration |-> now + TTL]
        /\ (ReadStep(r) /\ ExpiredItem(ik[r]) /\ ~ikCache[ik[r]].Object.Ready) =>
                LostAnswer(w'[r])]_vars

\* A request was admitted over an expired pending item whose executor is
\* still inside the handler.
C9_Witness ==
    \E r1, r2 \in Reqs :
        /\ r1 # r2 /\ ik[r1] = ik[r2]
        /\ role[r1] = "executor" /\ pc[r1] = "handler"
        /\ role[r2] = "executor" /\ over[r2] = "pending"

\* C10: a follower whose read (the first one or a later poll) does not find
\* its key answers 500 and returns: it does not go on polling, does not
\* invoke the handler and does not admit itself (the cache is unchanged).
C10_LostEntryIsTerminal ==
    [][\A r \in Reqs :
        (ReadStep(r) /\ ~Unexpired(ik[r])) =>
            /\ pc'[r] = "done"
            /\ w'[r].status = 500
            /\ role'[r] = "follower"
            /\ invoked' = invoked
            /\ ikCache' = ikCache]_vars

\* One follower lost its key at the first read, another at a later poll.
C10_Witness ==
    \E r1, r2 \in Reqs :
        /\ role[r1] = "follower" /\ pc[r1] = "done" /\ LostAnswer(w[r1]) /\ ~slept[r1]
        /\ role[r2] = "follower" /\ pc[r2] = "done" /\ LostAnswer(w[r2]) /\ slept[r2]

\* C11: when the handler's response is an error (the executor's caller got
\* a status of 400 or above), the executor publishes it and every follower
\* of the key that replays within the same expiry window replays that same
\* status and body.
C11_FailureReplayed ==
    \A r1, r2 \in Reqs :
        (/\ role[r1] = "executor" /\ pc[r1] = "done" /\ w[r1].status >= 400
         /\ role[r2] = "follower" /\ pc[r2] = "done"
         /\ ik[r1] = ik[r2] /\ ~lapsed[ik[r1]]) =>
            /\ w[r2].status = w[r1].status
            /\ w[r2].body = w[r1].body

\* C12: a follower waiting on its key does not wait forever: it eventually
\* returns, also when other requests with the same key keep arriving.
C12_FollowerReturns ==
    \A r \in Reqs :
        (role[r] = "follower" /\ pc[r] \in {"get", "sleep"}) ~> (pc[r] = "done")

\* C13 as stated: requests with distinct keys are independent and the
\* handler is invoked once per distinct key: whenever two distinct keys are
\* carried by requests, each of them has had exactly one invocation.
C13_OncePerDistinctKey ==
    \A k1, k2 \in IKs :
        (k1 # k2 /\ Carrying(k1) # {} /\ Carrying(k2) # {}) =>
            invoked[k1] = 1 /\ invoked[k2] = 1

\* C13 amended: a step of a request with key K1 leaves the item, the
\* deadline and the invocation count of every other key as they were, and
\* its admission wins whenever K1 has no unexpired item, whatever the other
\* keys hold; every carried key has an executor of its own, and exactly one
\* invocation as long as no item of that key has passed its deadline.
C13_KeysIndependent ==
    [][/\ \A r \in Reqs : pc'[r] # pc[r] =>
            /\ \A k \in IKs \ {ik'[r]} :
                /\ k \in DOMAIN ikCache <=> k \in DOMAIN ikCache'
                /\ k \in DOMAIN ikCache => ikCache'[k] = ikCache[k]
                /\ invoked'[k] = invoked[k]
            /\ (AdmissionStep(r) /\ ~Unexpired(ik'[r])) => role'[r] = "executor"
       /\ \A k \in IKs : Carrying(k)' # {} =>
            /\ Executors(k)' # {}
            /\ ~lapsed'[k] => invoked'[k] = 1]_vars

\* Two keys, each with its own finished executor and one invocation, one of
\* them replayed to a follower.
C13_Witness ==
    \E r1, r2, r3 \in Reqs :
        /\ ik[r1] = "ab" /\ ik[r2] = "abcd" /\ ik[r3] = "ab"
        /\ role[r1] = "executor" /\ pc[r1] = "done"
        /\ role[r2] = "executor" /\ pc[r2] = "done"
        /\ role[r3] = "follower" /\ pc[r3] = "done"
        /\ invoked["ab"] = 1 /\ invoked["abcd"] = 1
        /\ ~lapsed["ab"] /\ ~lapsed["abcd"]

\* C14: an entry is changed once, from not-ready to ready, and never
\* written again; no request path deletes it: an unexpired item stays in the
\* cache, and an unexpired item that is ready is left exactly as it is (its
\* response and its deadline) by every step.
C14_EntryWrittenOnce ==
    [][\A k \in DOMAIN ikCache : Unexpired(k) =>
        /\ k \in DOMAIN ikCache'
        /\ ikCache[k].Object.Ready => ikCache'[k] = ikCache[k]]_vars

\* C15: a follower's read that finds a ready item finds the response of an
\* executor of that key whose handler has returned and whose Replace has
\* run; a follower that answers without a lost key answers from a ready
\* item and never with the placeholder (status 0).
C15_ReadyAfterReplace ==
    [][\A r \in Reqs : ReadStep(r) =>
        /\ (Unexpired(ik[r]) /\ ikCache[ik[r]].Object.Ready) =>
                \E e \in Executors(ik[r]) :
                    /\ pc[e] = "done"
                    /\ rc[e].statusCode = ikCache[ik[r]].Object.Status
                    /\ rc[e].body = ikCache[ik[r]].Object.Body
        /\ (pc'[r] = "done" /\ Unexpired(ik[r])) =>
                /\ ikCache[ik[r]].Object.Ready
                /\ w'[r].status # 0
                /\ w'[r].status = ikCache[ik[r]].Object.Status]_vars

\* A follower that first read the placeholder, waited, and then replayed
\* the published response.
C15_Witness ==
    \E r \in Reqs :
        /\ role[r] = "follower" /\ pc[r] = "done" /\ slept[r]
        /\ w[r].status = 201 /\ w[r].body = "a"

\* C16: every request admitted as executor calls Replace on every exit path
\* of the handler invocation: an executor that is no longer inside the
\* handler has been through Replace.
C16_ExecutorAlwaysReplaces ==
    \A r \in Reqs : (role[r] = "executor" /\ pc[r] # "handler") => pc[r] = "done"

\* C17: whenever an executor calls Replace for its key, an unexpired item
\* of that key is in the cache.
C17_ReplaceFindsItem ==
    [][\A r \in Reqs : (pc[r] = "handler" /\ pc'[r] = "done") => Unexpired(ik[r])]_vars

\* C18: a request that ends with a coordination error (400 of a missing or
\* short key, 500 of a lost entry) leaves the cache exactly as it was
\* (items and deadlines); no item ever holds such an error, and a follower
\* whose read finds its key never answers with one.
C18_ErrorsLeaveStore ==
    [][/\ \A r \in Reqs :
            /\ (pc[r] # "done" /\ pc'[r] = "done" /\
                (role'[r] = "rejected" \/ (role'[r] = "follower" /\ LostAnswer(w'[r])))) =>
                    ikCache' = ikCache
            /\ (ReadStep(r) /\ Unexpired(ik[r]) /\ pc'[r] = "done") => ~LostAnswer(w'[r])
       /\ \A k \in DOMAIN ikCache' :
            "X-Content-Type-Options" \notin DOMAIN ikCache'[k].Object.Header]_vars

\* A rejected request and a follower answered 500 for a lost entry, with the
\* expired item still in the cache.
C18_Witness ==
    \E r1, r2 \in Reqs :
        /\ role[r1] = "rejected" /\ pc[r1] = "done"
        /\ role[r2] = "follower" /\ pc[r2] = "done" /\ LostAnswer(w[r2])
        /\ ExpiredItem(ik[r2])

\* The code of the last WriteHeader among the calls, 200 when there is none.
RECURSIVE LastCode(_)
LastCode(s) ==
    IF s = <<>> THEN 200
    ELSE IF s[Len(s)].op = "WriteHeader" THEN s[Len(s)].code
    ELSE LastCode(SubSeq(s, 1, Len(s) - 1))

\* The bytes of the Write calls, in order.
RECURSIVE Written(_)
Written(s) ==
    IF s = <<>> THEN ""
    ELSE (IF Head(s).op = "Write" THEN Head(s).p ELSE "") \o Written(Tail(s))

\* The calls made on the caller's own writer, without a catcher in between.
RECURSIVE Direct(_, _)
Direct(x, s) ==
    IF s = <<>> THEN x
    ELSE LET c == Head(s)
             y == CASE c.op = "Header" ->
                          [x EXCEPT !.hdr = HeaderSet(@, "Content-Type", "application/json")]
                    [] c.op = "WriteHeader" -> WriterWriteHeader(x, c.code)
                    [] c.op = "Write" -> WriterWrite(x, c.p)
         IN  Direct(y, Tail(s))

\* C19: for an executor whose handler has returned, the captured status is
\* the code of the handler's last WriteHeader and 200 when it made none, the
\* captured body is the concatenation in order of the bytes it wrote, and
\* the executor's caller has received exactly what the same calls made
\* directly on its writer produce (status line, headers, body, one write per
\* Write).
C19_Capture ==
    \A r \in Reqs : (role[r] = "executor" /\ pc[r] = "done") =>
        /\ rc[r].statusCode = LastCode(rc[r].calls)
        /\ rc[r].body = Written(rc[r].calls)
        /\ w[r] = WriterFinish(Direct(NewWriter, rc[r].calls))

\* A handler that wrote a status and two chunks, and one that wrote a body
\* without a status: captured 201 "ab", and 200 "b".
C19_Witness ==
    \E r \in Reqs :
        /\ role[r] = "executor" /\ pc[r] = "done"
        /\ rc[r].calls = <<WriteHeader(201), Write("a"), Write("b")>>
        /\ rc[r].statusCode = 201 /\ rc[r].body = "ab"
        /\ w[r].status = 201 /\ w[r].body = "ab" /\ w[r].writes = 2

\* C20: publishing gives the item the deadline now + TTL whatever deadline
\* the placeholder had, and from then until that deadline has passed the
\* item stays in the cache, ready, with a deadline that is not shortened,
\* and a follower's read of it replays.
C20_FreshDeadline ==
    [][/\ \A r \in Reqs :
            /\ (pc[r] = "handler" /\ pc'[r] = "done" /\ Unexpired(ik[r])) =>
                    /\ ikCache'[ik[r]].Object.Ready
                    /\ ikCache'[ik[r]].Expiration = now + TTL
                    /\ ikCache'[ik[r]].Expiration >= ikCache[ik[r]].Expiration
            /\ (ReadStep(r) /\ Unexpired(ik[r]) /\ ikCache[ik[r]].Object.Ready) =>
                    pc'[r] = "done" /\ ~LostAnswer(w'[r])
       /\ \A k \in DOMAIN ikCache : (Unexpired(k) /\ ikCache[k].Object.Ready) =>
            /\ k \in DOMAIN ikCache'
            /\ ikCache'[k].Object.Ready
            /\ ikCache'[k].Expiration >= ikCache[k].Expiration]_vars

\* An item published at time 2 or later under the only admission of its
\* key, still retrievable, and replayed to a follower that had waited.
C20_Witness ==
    \E k \in IKs, r \in Reqs :
        /\ now >= 2 /\ invoked[k] = 1 /\ ~lapsed[k]
        /\ Unexpired(k) /\ ikCache[k].Object.Ready
        /\ ikCache[k].Expiration = now + TTL
        /\ role[r] = "follower" /\ ik[r] = k /\ pc[r] = "done" /\ slept[r]

\* C21: in the inline middleware, of the requests sharing a key at most one
\* observes the key absent and proceeds as executor, and the api handler is
\* called at most once for the key, as long as no item of the key has
\* passed its deadline.
C21_InlineOneExecutor ==
    \A k \in IKs : ~lapsed[k] =>
        /\ Cardinality(Executors(k)) <= 1
        /\ invoked[k] <= 1

\* The executors of key k that are inside the handler (admitted, Replace
\* not yet reached).
Running(k) == {r \in Executors(k) : pc[r] = "handler"}

\* C22 as stated: at every moment at most one request per key is between
\* winning admission and its Replace, in any interleaving of requests and
\* expiry.
C22_NoOverlap ==
    \A k \in IKs : Cardinality(Running(k)) <= 1

\* C22 amended: as long as no item of the key has passed its deadline at
\* most one request of the key is between admission and Replace, and a
\* request is admitted as executor next to a running one only over an item
\* of the key that has expired or was swept after expiring.
C22_NoOverlapUntilExpiry ==
    [][/\ \A k \in IKs : ~lapsed'[k] => Cardinality(Running(k)') <= 1
       /\ \A r \in Reqs :
            (AdmissionStep(r) /\ role'[r] = "executor" /\ Running(ik'[r]) # {}) =>
                /\ lapsed[ik'[r]]
                /\ ~Unexpired(ik'[r])]_vars

\* One executor inside the handler while two followers of its key, which
\* has not expired, wait in the poll loop.
C22_Witness ==
    \E k \in IKs :
        /\ ~lapsed[k]
        /\ Cardinality(Running(k)) = 1
        /\ Cardinality({r \in Reqs : role[r] = "follower" /\ ik[r] = k /\ pc[r] = "sleep"}) = 2

\* C23: a step of a follower (its first read, a poll, its replay) leaves
\* every item and every deadline as they were; a deadline is set only by a
\* winning admission or by an executor's Replace; and a follower that reads
\* a ready item after its deadline finds nothing, however many followers
\* replayed it before.
C23_ReadsDoNotRefresh ==
    [][/\ \A r \in Reqs :
            (role[r] = "follower" /\ (pc'[r] # pc[r] \/ slept'[r] # slept[r])) =>
                /\ ikCache' = ikCache
                /\ (ExpiredItem(ik[r]) /\ ikCache[ik[r]].Object.Ready) => LostAnswer(w'[r])
       /\ \A k \in DOMAIN ikCache :
            (k \in DOMAIN ikCache' /\ ikCache'[k].Expiration # ikCache[k].Expiration) =>
                \E r \in Reqs :
                    /\ ik'[r] = k
                    /\ \/ AdmissionStep(r) /\ role'[r] = "executor"
                       \/ pc[r] = "handler" /\ pc'[r] = "done"]_vars

\* The handler ran once; one follower replayed the published response and
\* another, reading after the deadline, found nothing.
C23_Witness ==
    \E r1, r2, r3 \in Reqs :
        /\ ik[r1] = ik[r2] /\ ik[r2] = ik[r3] /\ invoked[ik[r1]] = 1
        /\ role[r1] = "executor" /\ pc[r1] = "done"
        /\ role[r2] = "follower" /\ pc[r2] = "done" /\ ~LostAnswer(w[r2])
        /\ role[r3] = "follower" /\ pc[r3] = "done" /\ LostAnswer(w[r3])

\* C24: for every sequence of WriteHeader and Write calls of the handler,
\* the status the executor stores for replay equals the status its own
\* caller received from the underlying writer.
C24_StoredStatusIsSentStatus ==
    \A r \in Reqs :
        (role[r] = "executor" /\ pc[r] = "done" /\ Unexpired(ik[r])) =>
            /\ ikCache[ik[r]].Object.Ready
            /\ ikCache[ik[r]].Object.Status = w[r].status

====
